---- MODULE Spec2Model ----
(***************************************************************************)
(* The fuzzing worker of move-fuzzer: LLVMFuzzerInitialize and the         *)
(* per-input entry point LLVMFuzzerTestOneInput (lib.rs), the recovery of  *)
(* the target's parameter schemas (move_runner/utils.rs, types.rs),        *)
(* MoveRunner::execute with its coverage plumbing (move_runner/mod.rs) and *)
(* the byte-stream-to-value synthesiser (move_runner/arbitrary_inputs.rs). *)
(*                                                                         *)
(* Libraries the worker links against are modelled by what they do at the  *)
(* call sites: the `arbitrary` reader (fill_buffer zero-pads and never     *)
(* fails, a bool is the low bit of one byte), the Move VM (its outcome and *)
(* whether it wrote trace records are choices of the environment) and the  *)
(* account-address parser, whose Result the source matches on: the set of  *)
(* buffers it rejects is a choice of the environment, fixed at start.      *)
(*                                                                         *)
(* Spec is the worker driven by one thread.  SpecThreads is the per-input  *)
(* entry point entered from two threads.  SpecBuild is the command-line    *)
(* round trip of BuildOptions and SpecCmin is corpus minification, both of *)
(* the cli crate.                                                          *)
(***************************************************************************)
EXTENDS Integers, Sequences, FiniteSets, TLC

VARIABLES
    target,        \* parameter types of the target function in the module
    disk,          \* the compiled files under the root module's directory
    behaviour,     \* what the target function does with its arguments
    abiModule,     \* the module generate_abi_from_bin found the function in
    store,         \* the ModuleStore of the execute in progress
    initialized,   \* MOVE_RUNNER holds a Runner
    runner,        \* MOVE_RUNNER: [params, coverage, coverage_map_dir]
    hook,          \* the installed panic hook: the steps it runs, in order
    hookEvents,    \* the steps the hook ran for the panic that ended the process
    diagnostic,    \* what the process printed when Initialise ended it
    mapDirExists,  \* the directory named by --coverage-map-dir is on disk
    debugPath,     \* MOVE_LIBFUZZER_DEBUG_PATH: "none" or "set"
    addrRejects,   \* leading bytes of the buffers AccountAddress::from_bytes rejects
    proc,          \* "running", "aborted" or "exited"
    abortedAt,     \* where the process aborted ("" while running)
    pc,            \* position of the per-input call
    calls,         \* number of per-input calls entered so far
    data,          \* the input bytes of the call in progress
    locked,        \* the Runner mutex is held
    args,          \* synthesised argument vector (until the VM call consumes it)
    synth,         \* what synthesis reported: [errs, failed]
    vmResult,      \* result of execute_function_bypass_visibility
    execResult,    \* what execute returned
    ret,           \* <<code>> returned to the engine by the last call, <<>> if none
    printed,       \* what the shim printed before aborting
    traceFile,     \* <coverage-map-dir>/.trace
    mapFile,       \* <coverage-map-dir>/.coverage_map.mvcov
    envTrace,      \* the environment variable MOVE_VM_TRACE
    debugFile,     \* the file at the debug-dump path
    dumpOf,        \* the call whose dump debugFile holds: [bytes, ptr]
    \* The per-input entry point entered from several threads.
    tpc,           \* position of each thread in test_input
    holder,        \* the thread holding the lock of MOVE_RUNNER, NoHolder if free
    entered,       \* per-input calls each thread has entered
    traceRecords,  \* the threads whose VM calls have records in .trace
    envOwner,      \* the thread whose coverage_setup set MOVE_VM_TRACE last
    \* The command-line round trip of BuildOptions (cli, options.rs).
    bopts,         \* the BuildOptions of the case
    bwords,        \* its formatted arguments, split at whitespace
    bparsed,       \* what BuildOptions::parse_from made of them
    bpc,           \* "case", "formatted" or "parsed"
    \* Corpus minification (cli, project.rs exec_cmin).
    corpusDir,     \* the corpus directory: [exists, files]
    corpusBefore,  \* the corpus directory as exec_cmin found it
    tmpCorpus,     \* <tmp>/corpus: [exists, files]
    oldCorpus,     \* <tmp>/old: [exists, files]
    userArgs,      \* the libFuzzer arguments given after `--`
    cmdArgs,       \* the arguments of the worker command
    exitStatus,    \* how the worker command ended: "none", "success", "failure"
    cpc            \* position of exec_cmin

\* The worker driven by one thread.
worker == <<target, behaviour, disk, abiModule, store, initialized, runner, hook, hookEvents,
            diagnostic, mapDirExists, debugPath,
            addrRejects, proc, abortedAt, pc, calls, data, locked, args, synth,
            vmResult, execResult, ret, printed, traceFile, mapFile, envTrace,
            debugFile, dumpOf>>

\* The entry point entered from several threads.
threads == <<tpc, holder, entered, traceRecords, envOwner>>

\* The round trip of one BuildOptions.
build == <<bopts, bwords, bparsed, bpc>>

\* One run of exec_cmin.
cmin == <<corpusDir, corpusBefore, tmpCorpus, oldCorpus, userArgs, cmdArgs, exitStatus, cpc>>

\* What the worker driven by one thread never touches.
others == <<threads, build, cmin>>

vars == <<worker, others>>

\* What only LLVMFuzzerInitialize writes, with the module on disk and the
\* address parser linked in, which nothing writes.
setup == <<target, behaviour, disk, abiModule, initialized, runner, hook, diagnostic,
           mapDirExists, debugPath, addrRejects, others>>

(***************************************************************************)
(* Bounds of the model.                                                    *)
(***************************************************************************)
MaxLen == 2      \* longest input byte slice
MaxByte == 2     \* byte values are 0..MaxByte
MaxCalls == 2    \* per-input calls explored in one run
MaxDumpLen == 1  \* longest input byte slice handed to a debug-dump call

ByteVals == 0..MaxByte

RECURSIVE SeqsUpTo(_, _)
SeqsUpTo(S, n) ==
    IF n = 0 THEN {<<>>}
    ELSE LET shorter == SeqsUpTo(S, n - 1)
         IN  shorter \cup {Append(s, b) : s \in {t \in shorter : Len(t) = n - 1}, b \in S}

Inputs == SeqsUpTo(ByteVals, MaxLen)

\* The inputs explored on the debug-dump path, which never reads the bytes.
DumpInputs == SeqsUpTo(ByteVals, MaxDumpLen)

\* Addresses the engine may hand the input buffer at.
Ptrs == {"0x1000", "0x2000"}

(***************************************************************************)
(* FuzzerType (types.rs): a tag and the component schemas.                 *)
(***************************************************************************)
Prim(tag) == [tag |-> tag, sub |-> <<>>]
Vector(t) == [tag |-> "Vector", sub |-> <<t>>]
Struct(fields) == [tag |-> "Struct", sub |-> fields]

FuzzerTypeTags ==
    {"U8", "U16", "U32", "U64", "U128", "U256", "Bool", "Vector", "Struct",
     "Signer", "Address"}

\* Width in bytes of what each primitive reads from the stream.
AccountAddressLength == 32
U256Length == 32

\* A reader that takes one byte whatever the type.
WidthOneByte(tag) == 1

Width(tag) ==
    CASE tag = "Bool" -> 1
      [] tag = "U8" -> 1
      [] tag = "U16" -> 2
      [] tag = "U32" -> 4
      [] tag = "U64" -> 8
      [] tag = "U128" -> 16
      [] tag = "U256" -> U256Length
      [] tag = "Address" -> AccountAddressLength
      [] tag = "Signer" -> AccountAddressLength

(***************************************************************************)
(* MoveValue: a tag, the payload (number or address bytes) and components. *)
(***************************************************************************)
MoveValue(tag, v, sub) == [tag |-> tag, v |-> v, sub |-> sub]
NoValue == MoveValue("None", <<>>, <<>>)

Min(a, b) == IF a < b THEN a ELSE b

Zeros(n) == [i \in 1..n |-> 0]

\* A reader that serves a request from the end of the slice.
fill_buffer_from_end(u, n) ==
    LET k == Min(n, Len(u))
    IN  [buf |-> SubSeq(u, Len(u) - k + 1, Len(u)) \o Zeros(n - k),
         rest |-> SubSeq(u, 1, Len(u) - k)]

\* Unstructured::fill_buffer: copies what is left, zero-fills the rest of the
\* buffer, advances the stream; it never fails.
fill_buffer(u, n) ==
    LET k == Min(n, Len(u))
    IN  [buf |-> SubSeq(u, 1, k) \o Zeros(n - k), rest |-> SubSeq(u, k + 1, Len(u))]

RECURSIVE from_le_bytes(_)
from_le_bytes(buf) ==
    IF buf = <<>> THEN 0 ELSE Head(buf) + 256 * from_le_bytes(Tail(buf))

\* A bool that is true for every non-zero byte.
arbitrary_bool_nonzero(u) ==
    LET r == fill_buffer(u, 1)
    IN  [val |-> (r.buf[1] # 0), rest |-> r.rest]

\* <bool as Arbitrary>::arbitrary: the low bit of one byte.
arbitrary_bool(u) ==
    LET r == fill_buffer(u, 1)
    IN  [val |-> (r.buf[1] % 2 = 1), rest |-> r.rest]

\* AccountAddress::from_bytes as the source sees it: Ok(address) or
\* Err(AccountAddressParseError); rej is the environment's choice of the
\* buffers (by leading byte) that the parser rejects.
from_bytes(buf, rej) ==
    IF buf[1] \in rej THEN [ok |-> FALSE, addr |-> <<>>]
    ELSE [ok |-> TRUE, addr |-> buf]

arbitrary_account(u, rej) ==
    LET r == fill_buffer(u, AccountAddressLength)
    IN  [res |-> from_bytes(r.buf, rej), rest |-> r.rest]

\* arbitrary_address / arbitrary_signer: Ok(value) or Err(AccountAddressParseError).
arbitrary_address(tag, u, rej) ==
    LET a == arbitrary_account(u, rej)
    IN  IF a.res.ok
        THEN [kind |-> "Ok", val |-> MoveValue(tag, a.res.addr, <<>>),
              rest |-> a.rest, errs |-> 0]
        ELSE [kind |-> "Err", val |-> NoValue, rest |-> a.rest, errs |-> 0]

RECURSIVE arbitrary_input(_, _, _)
RECURSIVE arbitrary_inputs_from(_, _, _, _, _)
RECURSIVE arbitrary_iter_collect(_, _, _, _, _)

\* arbitrary_vec: ArbitraryIter::next reads one continue bit (false when the
\* bit read fails), then one element; the map closure unwraps every element,
\* so an element that is Err(AccountAddressParseError) panics.
arbitrary_iter_collect(t, u, rej, acc, errs) ==
    LET keep_going == arbitrary_bool(u)
    IN  IF ~keep_going.val
        THEN [kind |-> "Ok", val |-> MoveValue("Vector", <<>>, acc),
              rest |-> keep_going.rest, errs |-> errs]
        ELSE LET e == arbitrary_input(t, keep_going.rest, rej)
             IN  IF e.kind = "Ok"
                 THEN arbitrary_iter_collect(t, e.rest, rej, Append(acc, e.val),
                                             errs + e.errs)
                 ELSE [kind |-> "Panic", val |-> NoValue, rest |-> e.rest,
                       errs |-> errs + e.errs]

\* A vector whose first element is read before any continue bit.
arbitrary_vec_one_first(t, u, rej) ==
    LET e == arbitrary_input(t, u, rej)
    IN  IF e.kind = "Ok"
        THEN arbitrary_iter_collect(t, e.rest, rej, <<e.val>>, e.errs)
        ELSE [kind |-> "Panic", val |-> NoValue, rest |-> e.rest, errs |-> e.errs]

arbitrary_vec(t, u, rej) == arbitrary_iter_collect(t, u, rej, <<>>, 0)

\* arbitrary_inputs, from the i-th schema on: a value is pushed for Ok(Ok(v));
\* for Ok(Err(e)) the error is printed and nothing is pushed.
arbitrary_inputs_from(inputs, i, u, rej, acc) ==
    IF i > Len(inputs) \/ acc.panicked THEN [acc EXCEPT !.rest = u]
    ELSE LET r == arbitrary_input(inputs[i], u, rej)
         IN  arbitrary_inputs_from(inputs, i + 1, r.rest, rej,
                [vals |-> IF r.kind = "Ok" THEN Append(acc.vals, r.val) ELSE acc.vals,
                 errs |-> acc.errs + r.errs + (IF r.kind = "Err" THEN 1 ELSE 0),
                 failed |-> IF r.kind = "Err" THEN acc.failed \cup {i} ELSE acc.failed,
                 panicked |-> r.kind = "Panic",
                 rest |-> r.rest])

arbitrary_inputs(inputs, u, rej) ==
    arbitrary_inputs_from(inputs, 1, u, rej,
        [vals |-> <<>>, errs |-> 0, failed |-> {}, panicked |-> FALSE, rest |-> u])

arbitrary_input(input, u, rej) ==
    CASE input.tag = "Bool" ->
            LET b == arbitrary_bool(u)
            IN  [kind |-> "Ok", rest |-> b.rest, errs |-> 0,
                 val |-> MoveValue("Bool", <<IF b.val THEN 1 ELSE 0>>, <<>>)]
      [] input.tag \in {"U8", "U16", "U32", "U64", "U128", "U256"} ->
            LET r == fill_buffer(u, Width(input.tag))
            IN  [kind |-> "Ok", rest |-> r.rest, errs |-> 0,
                 val |-> MoveValue(input.tag, <<from_le_bytes(r.buf)>>, <<>>)]
      [] input.tag = "Vector" -> arbitrary_vec(input.sub[1], u, rej)
      [] input.tag = "Struct" ->
            LET s == arbitrary_inputs(input.sub, u, rej)
            IN  [kind |-> IF s.panicked THEN "Panic" ELSE "Ok",
                 val |-> MoveValue("Struct", <<>>, s.vals),
                 rest |-> s.rest, errs |-> s.errs]
      [] input.tag \in {"Address", "Signer"} -> arbitrary_address(input.tag, u, rej)

(***************************************************************************)
(* The Move VM and the error taxonomy.                                     *)
(***************************************************************************)
\* StatusCode values the classification names (move_core_types::vm_status).
ABORTED == 4016
ARITHMETIC_ERROR == 4017
MEMORY_LIMIT_EXCEEDED == 4028
OUT_OF_GAS == 4002
MISSING_DEPENDENCY == 1021

ListedStatuses ==
    {ABORTED, ARITHMETIC_ERROR, MEMORY_LIMIT_EXCEEDED, OUT_OF_GAS, MISSING_DEPENDENCY}

\* Statuses outside the table that the VM may report: VECTOR_OPERATION_ERROR and
\* EXECUTION_STACK_OVERFLOW.
OtherStatuses == {4018, 4020}

StatusCodes == ListedStatuses \cup OtherStatuses

\* VMError::message(): None, or Some(text).
VmMessages ==
    {[some |-> FALSE, text |-> ""], [some |-> TRUE, text |-> "index out of bounds"]}

VmOk == [ok |-> TRUE, status |-> 0, message |-> [some |-> FALSE, text |-> ""]]
VmErr(status, message) == [ok |-> FALSE, status |-> status, message |-> message]
VmResults == {VmOk} \cup {VmErr(s, m) : s \in StatusCodes, m \in VmMessages}

\* What the function the VM is asked to run does: it returns, it fails with
\* one error whatever its arguments, or it fails with it when the first
\* argument starts with a non-zero number.
TargetBehaviours ==
    {[fails |-> "never", result |-> VmOk]}
        \cup {[fails |-> "always", result |-> r] : r \in VmResults \ {VmOk}}
        \cup {[fails |-> "nonzero", result |-> VmErr(ABORTED, [some |-> FALSE, text |-> ""])]}

\* The first argument starts with a non-zero number.
LeadsNonZero(as) == as # <<>> /\ as[1].v # <<>> /\ as[1].v[1] # 0

\* A VM that runs the function in the session its first call opened and
\* returns Ok from every later call.
VmOutcomeOfFirstSession(b, as) ==
    IF calls <= 1 /\ (b.fails = "always" \/ (b.fails = "nonzero" /\ LeadsNonZero(as)))
    THEN b.result ELSE VmOk

\* session.execute_function_bypass_visibility on a fresh session: the result
\* is the function's, for the arguments given.
VmOutcome(b, as) ==
    IF b.fails = "always" \/ (b.fails = "nonzero" /\ LeadsNonZero(as))
    THEN b.result ELSE VmOk

\* The variants of enum Error declared in types.rs.
ErrorKinds ==
    {"Abort", "Runtime", "OutOfBound", "OutOfGas", "ArithmeticError",
     "MemoryLimitExceeded", "Unknown", "AccountAddressParseError"}

Error(kind, message) == [kind |-> kind, message |-> message]
NoError == Error("", "")

\* The match on err.major_status() in execute; message is "" when the VM
\* error has none.
Classify(status, vmMessage) ==
    LET message == IF vmMessage.some THEN vmMessage.text ELSE ""
    IN  CASE status = ABORTED -> Error("Abort", message)
          [] status = ARITHMETIC_ERROR -> Error("ArithmeticError", message)
          [] status = MEMORY_LIMIT_EXCEEDED -> Error("MemoryLimitExceeded", message)
          [] status = OUT_OF_GAS -> Error("OutOfGas", message)
          [] status = MISSING_DEPENDENCY -> Error("MissingDependency", message)
          [] OTHER -> Error("Unknown",
                            "Status code: " \o ToString(status) \o ", " \o message)

(***************************************************************************)
(* Files.                                                                  *)
(***************************************************************************)
\* A trace file holds the records the VM appended, tagged here with the call
\* that produced them; a coverage map records the trace it was computed from
\* and the call that wrote it.
NoTrace == [exists |-> FALSE, from |-> {}]
NoMap == [exists |-> FALSE, from |-> {}, writer |-> 0]
NoDebugFile == [exists |-> FALSE, text |-> ""]
NoDump == [bytes |-> <<>>, ptr |-> ""]

\* `{:?}` of the pointer `data: *const u8`, with the newline of writeln!.
DebugText(p) == p \o "\n"

(***************************************************************************)
(* The targets the worker may be started on, and the process at start.     *)
(***************************************************************************)
RunnerSchemas ==
    { <<>>,
      <<Prim("U8")>>,
      <<Prim("Bool"), Prim("U16")>>,
      <<Prim("U16"), Prim("U8")>>,
      <<Prim("U64"), Prim("U128"), Prim("U256")>>,
      <<Prim("Address")>>,
      <<Prim("U8"), Prim("Signer"), Prim("U8")>>,
      <<Vector(Prim("U8"))>>,
      <<Vector(Prim("Address"))>>,
      <<Vector(Vector(Prim("Bool")))>>,
      <<Vector(Struct(<<>>))>>,
      <<Struct(<<Prim("U8"), Prim("Address")>>), Prim("Bool")>> }

\* move_model's Type, as far as FuzzerType::from distinguishes it: a struct
\* type is carried with the field types its declaration resolves to.
MovePrimitive(p) == [kind |-> "Primitive", prim |-> p, sub |-> <<>>]
MoveVector(t) == [kind |-> "Vector", prim |-> "", sub |-> <<t>>]
MoveStruct(fields) == [kind |-> "Struct", prim |-> "", sub |-> fields]
MoveOther(kind) == [kind |-> kind, prim |-> "", sub |-> <<>>]

\* impl From<FuzzerType> for MoveType.
RECURSIVE MoveTypeFrom(_)
MoveTypeFrom(t) ==
    CASE t.tag = "Vector" -> MoveVector(MoveTypeFrom(t.sub[1]))
      [] t.tag = "Struct" -> MoveStruct([i \in 1..Len(t.sub) |-> MoveTypeFrom(t.sub[i])])
      [] OTHER -> MovePrimitive(t.tag)

\* Parameter lists FuzzerType::from has no translation for: a reference, a
\* type parameter, a tuple inside a vector, a function type inside a struct
\* and the specification-only primitive Num.
UnsupportedSignatures ==
    { <<MoveOther("Reference")>>,
      <<MovePrimitive("U8"), MoveOther("TypeParameter")>>,
      <<MoveVector(MoveOther("Tuple"))>>,
      <<MoveStruct(<<MovePrimitive("U8"), MoveOther("Fun")>>)>>,
      <<MovePrimitive("Num")>> }

\* The parameter types of the target function, as the model environment
\* reports them.
TargetSignatures ==
    { [i \in 1..Len(s) |-> MoveTypeFrom(s[i])] : s \in RunnerSchemas }
        \cup UnsupportedSignatures

\* What the process prints when initialize ends it, with the parameter types
\* the text names.  todo!() prints "not yet implemented" and names no type.
NotYetImplemented == [text |-> "not yet implemented", mentions |-> {}]
DebugPathSetTwice ==
    [text |-> "Since this is initialize it is only called once so can never fail",
     mentions |-> {}]
RunnerSetTwice == [text |-> "Failed to initialize move runner", mentions |-> {}]
ClapMissingCoverage ==
    [text |-> "error: the following required arguments were not provided: --coverage",
     mentions |-> {}]
NoDiagnostic == [text |-> "", mentions |-> {}]

\* FuzzerType::from: [ok, type], or [ok |-> FALSE, offending] when the match
\* reaches a todo!() arm.
RECURSIVE FuzzerTypeFrom(_)
FuzzerTypeFrom(value) ==
    CASE value.kind = "Primitive" ->
            IF value.prim \in FuzzerTypeTags \ {"Vector", "Struct"}
            THEN [ok |-> TRUE, type |-> Prim(value.prim), offending |-> ""]
            ELSE [ok |-> FALSE, type |-> Prim(""), offending |-> value.prim]
      [] value.kind = "Vector" ->
            LET e == FuzzerTypeFrom(value.sub[1])
            IN  IF e.ok THEN [ok |-> TRUE, type |-> Vector(e.type), offending |-> ""]
                ELSE e
      [] value.kind = "Struct" ->
            LET fs == [i \in 1..Len(value.sub) |-> FuzzerTypeFrom(value.sub[i])]
                bad == {i \in 1..Len(fs) : ~fs[i].ok}
            IN  IF bad = {}
                THEN [ok |-> TRUE, type |-> Struct([i \in 1..Len(fs) |-> fs[i].type]),
                      offending |-> ""]
                ELSE fs[CHOOSE i \in bad : \A j \in bad : i <= j]
      [] OTHER -> [ok |-> FALSE, type |-> Prim(""), offending |-> value.kind]

\* transform_params: the parameters translated in order; the first one
\* without a translation panics.
transform_params(params) ==
    LET ts == [i \in 1..Len(params) |-> FuzzerTypeFrom(params[i])]
        bad == {i \in 1..Len(ts) : ~ts[i].ok}
    IN  IF bad = {}
        THEN [ok |-> TRUE, types |-> [i \in 1..Len(ts) |-> ts[i].type], offending |-> ""]
        ELSE [ok |-> FALSE, types |-> <<>>,
              offending |-> ts[CHOOSE i \in bad : \A j \in bad : i <= j].offending]

\* The command line: --coverage and --coverage-map-dir given or not.
CliArgs == [coverage : BOOLEAN, coverage_map_dir : {"none", "some"}]

\* clap: --coverage-map-dir requires --coverage; --coverage alone is accepted.
CliAccepts(c) == c.coverage_map_dir = "some" => c.coverage

CliSettings == {c \in CliArgs : CliAccepts(c)}

RejectChoices == {{}, {0}, {1}}

(***************************************************************************)
(* BuildOptions on the command line (cli/src/options.rs): the formatter of *)
(* the round-trip test and the parser clap derives from the structs.       *)
(***************************************************************************)
MaxFlags == 1    \* build-config fields a BuildOptions sets at once

\* Option<_>::None.
None == ""

\* The fields of BuildConfig the test sets, those that are switches and
\* those that carry a value.
BuildConfigSwitches ==
    {"dev_mode", "test_mode", "generate_docs", "force_recompilation", "fetch_deps_only",
     "skip_fetch_latest_git_deps", "deps_as_root", "silence_warnings",
     "warnings_are_errors"}
BuildConfigValues == {"install_dir", "default_flavor", "default_edition"}
BuildConfigFields == BuildConfigSwitches \cup BuildConfigValues

\* The value the test gives a field, as Display or Debug prints it.
ValueOf(field) ==
    CASE field = "install_dir" -> "install/dir"
      [] field = "default_flavor" -> "Flavor::default()"
      [] field = "default_edition" -> "Edition::default()"

\* The long option of a BuildConfig field.
LongOf(field) ==
    CASE field = "dev_mode" -> "--dev"
      [] field = "test_mode" -> "--test"
      [] field = "generate_docs" -> "--doc"
      [] field = "install_dir" -> "--install-dir"
      [] field = "force_recompilation" -> "--force"
      [] field = "fetch_deps_only" -> "--fetch-deps-only"
      [] field = "skip_fetch_latest_git_deps" -> "--skip-fetch-latest-git-deps"
      [] field = "default_flavor" -> "--default-move-flavor"
      [] field = "default_edition" -> "--default-move-edition"
      [] field = "deps_as_root" -> "--dependencies-are-root"
      [] field = "silence_warnings" -> "--silence-warnings"
      [] field = "warnings_are_errors" -> "--warnings-are-errors"

\* The order in which format_build_options looks at the BuildConfig fields.
BuildConfigOrder ==
    <<"dev_mode", "test_mode", "generate_docs", "install_dir", "force_recompilation",
      "fetch_deps_only", "skip_fetch_latest_git_deps", "default_flavor",
      "default_edition", "deps_as_root", "silence_warnings", "warnings_are_errors">>

BuildOptions(path, verbose, module, function, name, config) ==
    [package_path |-> path, verbose |-> verbose, target_module |-> module,
     target_function |-> function, target_name |-> name, build_config |-> config]

default_build_options == BuildOptions(None, FALSE, None, None, None, {})

\* The BuildOptions the round trip is tried on: those of the test, and their
\* combinations with up to MaxFlags build-config fields set.
BuildOptionsCases ==
    { BuildOptions(path, verbose, t[1], t[2], t[3], config) :
        path \in {None, "path/to/package"},
        verbose \in BOOLEAN,
        t \in {<<None, None, None>>, <<"module_name", "target_function", None>>,
               <<None, None, "target_name">>},
        config \in {c \in SUBSET BuildConfigFields : Cardinality(c) <= MaxFlags} }

\* The words of the arguments of the BuildConfig fields from the i-th on.
RECURSIVE format_build_config(_, _)
format_build_config(config, i) ==
    IF i > Len(BuildConfigOrder) THEN <<>>
    ELSE LET field == BuildConfigOrder[i]
             here == IF field \notin config THEN <<>>
                     ELSE IF field \in BuildConfigValues
                     THEN <<LongOf(field), ValueOf(field)>>
                     ELSE <<LongOf(field)>>
         IN  here \o format_build_config(config, i + 1)

\* format_build_options(case).split_whitespace(): the arguments pushed,
\* joined by blanks and split again.
format_build_options(opts) ==
    (IF opts.package_path # None THEN <<"--path", opts.package_path>> ELSE <<>>)
    \o (IF opts.verbose THEN <<"-v">> ELSE <<>>)
    \o (IF opts.target_module # None THEN <<"--module_name", opts.target_module>> ELSE <<>>)
    \o (IF opts.target_function # None
        THEN <<"--target_function", opts.target_function>> ELSE <<>>)
    \o (IF opts.target_name # None THEN <<"--target_name", opts.target_name>> ELSE <<>>)
    \o format_build_config(opts.build_config, 1)

\* The options the derived parser knows, with the field each one sets.
ValueOptions ==
    [w \in {"--path", "-p", "--target-module", "--target-function", "--target-name"} |->
        CASE w \in {"--path", "-p"} -> "package_path"
          [] w = "--target-module" -> "target_module"
          [] w = "--target-function" -> "target_function"
          [] w = "--target-name" -> "target_name"]

FieldOfLong(w) == CHOOSE field \in BuildConfigFields : LongOf(field) = w
Longs(fields) == {LongOf(field) : field \in fields}

NotParsed == [ok |-> FALSE, opts |-> default_build_options]

\* The arguments after the binary name, read from left to right: a known
\* switch, a known option with its value, or an error.
RECURSIVE parse_args(_, _)
parse_args(words, acc) ==
    IF words = <<>> THEN [ok |-> TRUE, opts |-> acc]
    ELSE LET w == Head(words)
         IN  IF w = "-v"
             THEN parse_args(Tail(words), [acc EXCEPT !.verbose = TRUE])
             ELSE IF w \in Longs(BuildConfigSwitches)
             THEN parse_args(Tail(words),
                             [acc EXCEPT !.build_config = @ \cup {FieldOfLong(w)}])
             ELSE IF Len(words) < 2 THEN NotParsed
             ELSE IF w \in Longs(BuildConfigValues)
             THEN parse_args(Tail(Tail(words)),
                             [acc EXCEPT !.build_config = @ \cup {FieldOfLong(w)}])
             ELSE IF w \in DOMAIN ValueOptions
             THEN parse_args(Tail(Tail(words)),
                             [acc EXCEPT ![ValueOptions[w]] = words[2]])
             ELSE NotParsed

\* BuildOptions::parse_from: the first word is the name of the binary; the
\* group "target" needs exactly one of --target-name and --target-function,
\* and --target-function needs --target-module.
parse_from(words) ==
    LET r == parse_args(IF words = <<>> THEN <<>> ELSE Tail(words), default_build_options)
    IN  IF ~r.ok THEN NotParsed
        ELSE IF (r.opts.target_name # None) = (r.opts.target_function # None)
        THEN NotParsed
        ELSE IF r.opts.target_function # None /\ r.opts.target_module = None
        THEN NotParsed
        ELSE r

\* No round trip is under way.
BuildAside ==
    /\ bopts = default_build_options
    /\ bwords = <<>>
    /\ bparsed = NotParsed
    /\ bpc = "case"

(***************************************************************************)
(* Corpus minification (cli/src/project.rs, exec_cmin).                    *)
(***************************************************************************)
MaxCorpus == 3   \* inputs a corpus directory may hold

CorpusInputs == 1..MaxCorpus

Dir(files) == [exists |-> TRUE, files |-> files]
NoDir == [exists |-> FALSE, files |-> {}]

\* The paths exec_cmin knows.
CorpusPath == "fuzz/corpus/fuzz_target/fuzz_target"
TmpCorpusPath == "fuzz/.tmp/corpus"

\* What the user may give after `--`.
UserArgChoices == {<<>>, <<"-runs=0">>, <<"-merge=1">>}

\* cargo_run: the command of the worker with its four arguments.
cargo_run ==
    <<"--module-path=fuzz/build/fuzz/bytecode_modules/fuzz_target.mv",
      "--target-module=fuzz_target", "--target-function=fuzz_target",
      "-artifact_prefix=fuzz/artifacts/fuzz_target/fuzz_target/">>

\* The directory at a path once the command has run: the command writes
\* inputs only into a directory named among its arguments.
AfterCommand(path, dir, given, written) ==
    IF \E i \in 1..Len(given) : given[i] = path THEN Dir(dir.files \cup written) ELSE dir

\* No minification is under way.
CminAside ==
    /\ corpusDir = Dir({})
    /\ corpusBefore = Dir({})
    /\ tmpCorpus = NoDir
    /\ oldCorpus = NoDir
    /\ userArgs = <<>>
    /\ cmdArgs = <<>>
    /\ exitStatus = "none"
    /\ cpc = "start"

\* The threads that may call LLVMFuzzerTestOneInput, and no thread.
Threads == {1, 2}
NoHolder == 0

\* No thread has entered test_input.
ThreadsIdle ==
    /\ tpc = [t \in Threads |-> "idle"]
    /\ holder = NoHolder
    /\ entered = [t \in Threads |-> 0]
    /\ traceRecords = {}
    /\ envOwner = NoHolder

(***************************************************************************)
(* Compiled modules, the files that hold them, the ModuleLoader and the    *)
(* ModuleStore (move_runner/module_manager).                               *)
(***************************************************************************)
Addresses == {"0x1", "0x2"}
ModuleNames == {"fuzz_target", "helper"}

\* --target-module, as the worker is started.
TargetModule == "fuzz_target"

\* A compiled module: its address and name, a body that tells two builds
\* with one self-id apart, and whether it declares the function named by
\* --target-function: with the parameter types of `target`, with other
\* parameter types, or not at all.
Module(addr, name, body, fn) == [addr |-> addr, name |-> name, body |-> body, fn |-> fn]
NoModule == Module("", "", "", "none")

\* CompiledModule::self_id.
SelfId(m) == [address |-> m.addr, name |-> m.name]
ModuleIds == [address : Addresses, name : ModuleNames]

\* CompiledModule::serialize: the bytes of a module.
Serialize(m) == <<"move_bytecode", m.addr, m.name, m.body, m.fn>>

\* A file with the compiled-module extension: one that deserialises to a
\* module, or one that does not.
GoodFile(m) == [ok |-> TRUE, module |-> m]
BadFile == [ok |-> FALSE, module |-> NoModule]

Directory(root, siblings) == [root |-> root, siblings |-> siblings]

FuzzTarget == Module("0x1", "fuzz_target", "a", "target")
Helper == Module("0x1", "helper", "a", "none")

\* The usual build directory: the target module alone.
PlainDirectory == Directory(GoodFile(FuzzTarget), <<>>)

\* Other directories the worker may be pointed at, siblings in the order
\* WalkDir yields them: a dependency; a sibling or a root that does not
\* deserialise; a second build of the root's module; one dependency found
\* twice; the target module among the siblings of a root of another name;
\* the target's name at two addresses; no module of the target's name; a
\* target module without the target function.
OtherDirectories ==
    { Directory(GoodFile(FuzzTarget), <<GoodFile(Helper)>>),
      Directory(GoodFile(FuzzTarget), <<BadFile>>),
      Directory(GoodFile(FuzzTarget), <<GoodFile(Helper), BadFile>>),
      Directory(BadFile, <<GoodFile(Helper)>>),
      Directory(GoodFile(FuzzTarget),
                <<GoodFile(Module("0x1", "fuzz_target", "b", "target"))>>),
      Directory(GoodFile(FuzzTarget), <<GoodFile(Helper), GoodFile(Helper)>>),
      Directory(GoodFile(Module("0x1", "helper", "a", "other")),
                <<GoodFile(FuzzTarget)>>),
      Directory(GoodFile(FuzzTarget),
                <<GoodFile(Module("0x2", "fuzz_target", "a", "other"))>>),
      Directory(GoodFile(Helper), <<>>),
      Directory(GoodFile(Module("0x1", "fuzz_target", "a", "none")), <<>>) }

\* The parameter types of a function of the target's name that is not the
\* target.
OtherSignature == <<MovePrimitive("Bool"), MovePrimitive("Bool")>>

\* f.get_parameter_types() of the function found in module m.
ParameterTypes(m) == IF m.fn = "target" THEN target ELSE OtherSignature

\* load_compiled_module: File::open, read_to_end and
\* deserialize_with_defaults, each unwrapped.
load_compiled_module(file) == [panicked |-> ~file.ok, module |-> file.module]

\* ModuleLoader::new.
ModuleLoaderNew(dir) ==
    LET r == load_compiled_module(dir.root)
    IN  [panicked |-> r.panicked, module |-> r.module, dependencies |-> <<>>]

\* ModuleLoader::load_depencencies: every sibling file is loaded and pushed.
RECURSIVE load_depencencies_from(_, _, _)
load_depencencies_from(loader, siblings, i) ==
    IF i > Len(siblings) THEN loader
    ELSE LET r == load_compiled_module(siblings[i])
         IN  IF r.panicked THEN [loader EXCEPT !.panicked = TRUE]
             ELSE load_depencencies_from(
                      [loader EXCEPT !.dependencies = Append(@, r.module)],
                      siblings, i + 1)

load_depencencies(loader, dir) == load_depencencies_from(loader, dir.siblings, 1)

\* ModuleLoader::get_all: the dependencies with the root inserted in front.
get_all(loader) == <<loader.module>> \o loader.dependencies

\* Two of the modules have one self-id.
DuplicateIds(modules) ==
    \E i, j \in 1..Len(modules) : i < j /\ SelfId(modules[i]) = SelfId(modules[j])

\* generate_abi_from_bin, env.get_modules().find(matches_name): the modules
\* the name matches.  The model environment holds the modules in a
\* topological order of their dependency graph, which any of them may lead.
MatchingModules(modules, module_name) ==
    {modules[i] : i \in {k \in 1..Len(modules) : modules[k].name = module_name}}

LoadFailed ==
    [text |-> "called Result::unwrap() on an Err value", mentions |-> {}]
DuplicateModule == [text |-> "Duplicate module found", mentions |-> {}]
NoTargetModule == [text |-> "Could not find target module !", mentions |-> {}]
NoTargetFunction == [text |-> "Could not find target function !", mentions |-> {}]

\* ModuleStore: the entries of the HashMap from ModuleId to bytes.
NoStore == {}
Entry(id, bytes) == [id |-> id, bytes |-> bytes]

\* An add_module that pushes the entry without looking for the id.
add_module_keeping(modules, m) == modules \cup {Entry(SelfId(m), Serialize(m))}

\* ModuleStore::add_module: HashMap::insert replaces the entry of the id.
add_module(modules, m) ==
    {e \in modules : e.id # SelfId(m)} \cup {Entry(SelfId(m), Serialize(m))}

\* ModuleStore::new.
ModuleStoreNew(root) == add_module(NoStore, root)

\* An add_dependencies that adds nothing.
add_dependencies_none(modules, dependencies) == modules

\* ModuleStore::add_dependencies: each dependency added, in order.
RECURSIVE add_dependencies(_, _)
add_dependencies(modules, dependencies) ==
    IF dependencies = <<>> THEN modules
    ELSE add_dependencies(add_module(modules, Head(dependencies)), Tail(dependencies))

\* ModuleResolver::get_module: Ok(self.modules.get(module_id).cloned()).
get_module(modules, id) ==
    IF \E e \in modules : e.id = id
    THEN [some |-> TRUE, bytes |-> (CHOOSE e \in modules : e.id = id).bytes]
    ELSE [some |-> FALSE, bytes |-> <<>>]

NoRunner ==
    [module |-> NoModule, dependencies |-> <<>>, target_module |-> "",
     params |-> <<>>, coverage |-> FALSE, coverage_map_dir |-> "none"]

\* std's default panic hook: it prints the panic message and returns, and
\* the panic then unwinds.
DefaultHook == <<"default_hook">>

WorkerStart ==
    /\ target \in TargetSignatures
    /\ addrRejects \in RejectChoices
    /\ behaviour \in TargetBehaviours
    /\ \/ /\ disk = PlainDirectory
          /\ behaviour.fails # "always"
       \/ /\ disk = PlainDirectory
          /\ target = <<MovePrimitive("U8")>>
          /\ addrRejects = {}
       \/ /\ disk \in OtherDirectories
          /\ target = <<MovePrimitive("U8")>>
          /\ addrRejects = {}
          /\ behaviour.fails = "never"
    /\ abiModule = NoModule
    /\ store = NoStore
    /\ initialized = FALSE
    /\ runner = NoRunner
    /\ hook = DefaultHook
    /\ hookEvents = <<>>
    /\ diagnostic = NoDiagnostic
    /\ mapDirExists = FALSE
    /\ debugPath = "none"
    /\ proc = "running"
    /\ abortedAt = ""
    /\ pc = "idle"
    /\ calls = 0
    /\ data = <<>>
    /\ locked = FALSE
    /\ args = <<>>
    /\ synth = [errs |-> 0, failed |-> {}]
    /\ vmResult = VmOk
    /\ execResult = [state |-> "none", error |-> NoError]
    /\ ret = <<>>
    /\ printed = NoError
    /\ traceFile = NoTrace
    /\ mapFile = NoMap
    /\ envTrace = "unset"
    /\ debugFile = NoDebugFile
    /\ dumpOf = NoDump

\* One worker, for the specifications that leave the worker alone.
WorkerAside ==
    /\ WorkerStart
    /\ disk = PlainDirectory
    /\ target = <<MovePrimitive("U8")>>
    /\ addrRejects = {}
    /\ behaviour.fails = "never"

Init ==
    /\ WorkerStart
    /\ ThreadsIdle
    /\ BuildAside
    /\ CminAside

\* What a panic runs: the steps of the hook up to the first abort.  A hook
\* that returns leaves the panic to unwind.
RECURSIVE RunHook(_)
RunHook(h) ==
    IF h = <<>> THEN <<"unwind">>
    ELSE IF Head(h) = "abort" THEN <<"abort">>
    ELSE <<Head(h)>> \o RunHook(Tail(h))

\* A panic: the installed hook runs; the hook of initialize aborts.
Panic(where) ==
    /\ proc' = "aborted"
    /\ abortedAt' = where
    /\ pc' = "aborted"
    /\ hookEvents' = RunHook(hook)

(***************************************************************************)
(* LLVMFuzzerInitialize (lib.rs, initialize).                              *)
(***************************************************************************)
\* A hook installation that keeps the previous hook and adds nothing.
HookWithoutAbort(previous) == previous

\* take_hook + set_hook: the new hook calls the previous one, then aborts.
HookWithAbort(previous) == Append(previous, "abort")

\* A MOVE_RUNNER.set that overwrites the cell.
OnceCellOverwrite(cell, isSet, value) == [ok |-> TRUE, cell |-> value]

\* OnceCell::set: Err, and the cell unchanged, when the cell is already set.
OnceCellSet(cell, isSet, value) ==
    IF isSet THEN [ok |-> FALSE, cell |-> cell] ELSE [ok |-> TRUE, cell |-> value]

\* initialize: the panic hook, the debug-path cell, Cli::parse, MoveRunner::new
\* (whose ABI recovery panics on a parameter type without translation) and
\* MOVE_RUNNER.set(..).expect(..).  clap exits with status 2 on a command
\* line it rejects.  The directory named by --coverage-map-dir is stored as a
\* path only: whether it is on disk is the file system's, and nothing here
\* (or in a per-input call) creates it.
\* initialize ends the process: a panic runs the hook just installed, a
\* rejected command line exits.
InitializeFails(how, at, text) ==
    /\ proc' = how
    /\ abortedAt' = at
    /\ pc' = how
    /\ diagnostic' = text
    /\ hookEvents' = IF how = "aborted" THEN RunHook(hook') ELSE hookEvents
    /\ UNCHANGED <<initialized, runner, mapDirExists, abiModule>>

\* MoveRunner::new and MOVE_RUNNER.set: the modules are loaded, the target
\* function is looked up by the names given, its parameter types become the
\* schemas, and the Runner is stored.
NewRunner(cli) ==
    LET root == ModuleLoaderNew(disk)
        loader == load_depencencies(root, disk)
        modules == get_all(loader)
    IN  IF root.panicked \/ loader.panicked
        THEN InitializeFails("aborted", "initialize", LoadFailed)
        ELSE \E refused \in {d \in BOOLEAN : d => DuplicateIds(modules)} :
               IF refused THEN InitializeFails("aborted", "initialize", DuplicateModule)
               ELSE IF MatchingModules(modules, TargetModule) = {}
               THEN InitializeFails("aborted", "initialize", NoTargetModule)
               ELSE \E found \in MatchingModules(modules, TargetModule) :
                      IF found.fn = "none"
                      THEN InitializeFails("aborted", "initialize", NoTargetFunction)
                      ELSE LET abi == transform_params(ParameterTypes(found))
                               new == [module |-> loader.module,
                                       dependencies |-> loader.dependencies,
                                       target_module |-> TargetModule,
                                       params |-> abi.types,
                                       coverage |-> cli.coverage,
                                       coverage_map_dir |-> cli.coverage_map_dir]
                               cell == OnceCellSet(runner, initialized, new)
                           IN  IF ~abi.ok
                               THEN InitializeFails("aborted", "initialize",
                                                    NotYetImplemented)
                               ELSE IF ~cell.ok
                               THEN InitializeFails("aborted", "initialize",
                                                    RunnerSetTwice)
                               ELSE /\ runner' = cell.cell
                                    /\ initialized' = TRUE
                                    /\ abiModule' = found
                                    /\ \E onDisk \in BOOLEAN :
                                          mapDirExists' =
                                              (cli.coverage_map_dir = "some" /\ onDisk)
                                    /\ UNCHANGED <<proc, abortedAt, pc, diagnostic,
                                                   hookEvents>>

Initialize ==
    /\ proc = "running"
    /\ pc = "idle"
    /\ hook' = HookWithAbort(hook)
    /\ \E envDebug \in BOOLEAN :
          LET dbg == OnceCellSet(debugPath, debugPath = "set", "set")
          IN  IF envDebug /\ ~dbg.ok
              THEN /\ InitializeFails("aborted", "initialize", DebugPathSetTwice)
                   /\ UNCHANGED debugPath
              ELSE /\ debugPath' = IF envDebug THEN dbg.cell ELSE debugPath
                   /\ \E cli \in CliArgs :
                         IF ~CliAccepts(cli)
                         THEN InitializeFails("exited", "cli_parse", ClapMissingCoverage)
                         ELSE NewRunner(cli)
    /\ UNCHANGED <<others, target, behaviour, disk, store, addrRejects, calls, data, locked, args, synth,
                   vmResult, execResult, ret, printed, traceFile, mapFile, envTrace,
                   debugFile, dumpOf>>

(***************************************************************************)
(* LLVMFuzzerTestOneInput (lib.rs, test_input).                            *)
(***************************************************************************)
\* A debug-dump branch that writes the dump and then falls through to the
\* execution path instead of returning.
TestInputDebugDumpFallsThrough ==
    /\ proc = "running"
    /\ initialized
    /\ pc = "idle"
    /\ calls < MaxCalls
    /\ debugPath = "set"
    /\ \E b \in DumpInputs, p \in Ptrs :
          /\ debugFile' = [exists |-> TRUE, text |-> DebugText(p)]
          /\ dumpOf' = [bytes |-> b, ptr |-> p]
          /\ data' = b
    /\ calls' = calls + 1
    /\ locked' = TRUE
    /\ pc' = "execute"
    /\ UNCHANGED <<setup, store, proc, abortedAt, hookEvents, args, synth,
                   vmResult, execResult, ret, printed, traceFile, mapFile,
                   envTrace>>

\* The debug-dump branch, taken when MOVE_LIBFUZZER_DEBUG_PATH is set:
\* File::create truncates the file, writeln! writes `{:?}` of `data` (the raw
\* pointer), and the call returns 0; either step failing panics.
TestInputDebugDump ==
    /\ proc = "running"
    /\ initialized
    /\ pc = "idle"
    /\ calls < MaxCalls
    /\ debugPath = "set"
    /\ calls' = calls + 1
    /\ \E io \in {"ok", "create_failed", "write_failed"} :
          IF io = "ok"
          THEN \E b \in DumpInputs, p \in Ptrs :
                  /\ debugFile' = [exists |-> TRUE, text |-> DebugText(p)]
                  /\ dumpOf' = [bytes |-> b, ptr |-> p]
                  /\ ret' = <<0>>
                  /\ UNCHANGED <<proc, abortedAt, hookEvents, pc>>
          ELSE /\ debugFile' = IF io = "write_failed"
                               THEN [exists |-> TRUE, text |-> ""]
                               ELSE debugFile
               /\ Panic("debug_dump")
               /\ ret' = <<>>
               /\ UNCHANGED dumpOf
    /\ UNCHANGED <<setup, store, data, locked, args, synth,
                   vmResult, execResult, printed, traceFile, mapFile, envTrace>>

\* Otherwise the call takes the Runner out of MOVE_RUNNER and locks it.
TestInputLock ==
    /\ proc = "running"
    /\ initialized
    /\ pc = "idle"
    /\ calls < MaxCalls
    /\ debugPath = "none"
    /\ ~locked
    /\ \E b \in Inputs : data' = b
    /\ calls' = calls + 1
    /\ locked' = TRUE
    /\ pc' = "execute"
    /\ ret' = <<>>
    /\ execResult' = [state |-> "none", error |-> NoError]
    /\ synth' = [errs |-> 0, failed |-> {}]
    /\ UNCHANGED <<setup, store, proc, abortedAt, hookEvents, args,
                   vmResult, printed, traceFile, mapFile, envTrace, debugFile,
                   dumpOf>>

(***************************************************************************)
(* MoveRunner::execute (move_runner/mod.rs).                               *)
(***************************************************************************)
\* trace_cleanup that leaves the file in place.
TraceNotRemoved == traceFile

\* trace_cleanup: the trace after remove_file succeeded on an existing file.
TraceRemoved == NoTrace

\* The start of execute: ModuleStore::new on the root module and
\* add_dependencies on the dependencies, a store built for this call alone.
remote_view(module, dependencies) ==
    add_dependencies(ModuleStoreNew(module), dependencies)

\* &self.module.self_id(), the module id handed to
\* execute_function_bypass_visibility.
CalledModuleId == SelfId(runner.module)

\* A coverage_setup that leaves MOVE_VM_TRACE to be published later.
CoverageSetupWithoutPublish ==
    /\ proc = "running"
    /\ pc = "execute"
    /\ pc' = "synth"
    /\ store' = remote_view(runner.module, runner.dependencies)
    /\ UNCHANGED <<setup, proc, abortedAt, hookEvents, traceFile, envTrace, calls,
                   data, locked, args, synth, vmResult, execResult, ret, printed,
                   mapFile, debugFile, dumpOf>>

\* coverage_setup: under coverage, trace_cleanup and then MOVE_VM_TRACE is set
\* to the trace path.  get_coverage_map_dir panics without a directory and
\* remove_file(..).unwrap() panics when the removal fails.
CoverageSetup ==
    /\ proc = "running"
    /\ pc = "execute"
    /\ IF ~runner.coverage
       THEN /\ pc' = "synth"
            /\ UNCHANGED <<proc, abortedAt, hookEvents, traceFile, envTrace>>
       ELSE IF runner.coverage_map_dir = "none"
       THEN /\ Panic("coverage_setup")
            /\ UNCHANGED <<traceFile, envTrace>>
       ELSE \E removed \in BOOLEAN :
              IF traceFile.exists /\ ~removed
              THEN /\ Panic("coverage_setup")
                   /\ UNCHANGED <<traceFile, envTrace>>
              ELSE /\ traceFile' = IF traceFile.exists THEN TraceRemoved ELSE traceFile
                   /\ envTrace' = "trace_path"
                   /\ pc' = "synth"
                   /\ UNCHANGED <<proc, abortedAt, hookEvents>>
    /\ store' = remote_view(runner.module, runner.dependencies)
    /\ UNCHANGED <<setup, calls, data, locked, args,
                   synth, vmResult, execResult, ret, printed, mapFile, debugFile,
                   dumpOf>>

\* arbitrary_inputs(inputs.clone(), &mut data), evaluated as the argument of
\* the VM call.
Synthesise ==
    /\ proc = "running"
    /\ pc = "synth"
    /\ LET r == arbitrary_inputs(runner.params, data, addrRejects)
       IN  IF r.panicked
           THEN /\ Panic("synthesis")
                /\ UNCHANGED <<args, synth>>
           ELSE /\ args' = r.vals
                /\ synth' = [errs |-> r.errs, failed |-> r.failed]
                /\ pc' = "vm"
                /\ UNCHANGED <<proc, abortedAt, hookEvents>>
    /\ UNCHANGED <<setup, store, calls, data, locked, vmResult,
                   execResult, ret, printed, traceFile, mapFile, envTrace,
                   debugFile, dumpOf>>

\* The trace file after the VM appended the records of call c to it.
TraceAppended(trace, c) == [exists |-> TRUE, from |-> trace.from \cup {c}]

\* session.execute_function_bypass_visibility: the outcome is the VM's; with
\* MOVE_VM_TRACE set the VM appends its records to the file named there (a
\* failing call may stop before any record, a build without tracing writes
\* none; none can be written under a directory that does not exist).  The
\* argument vector and the byte stream are consumed.  The VM or
\* the target's native functions may also panic instead of returning.
VMCall ==
    /\ proc = "running"
    /\ pc = "vm"
    /\ \/ \E wrote \in BOOLEAN :
             /\ vmResult' = VmOutcome(behaviour, args)
             /\ traceFile' = IF envTrace = "trace_path" /\ wrote /\ mapDirExists
                             THEN TraceAppended(traceFile, calls)
                             ELSE traceFile
             /\ pc' = "post"
             /\ UNCHANGED <<proc, abortedAt, hookEvents>>
       \/ /\ Panic("vm")
          /\ UNCHANGED <<vmResult, traceFile>>
    /\ args' = <<>>
    /\ data' = <<>>
    /\ UNCHANGED <<setup, store, calls, locked, synth, execResult, ret, printed,
                   mapFile, envTrace, debugFile, dumpOf>>

\* The coverage map computed from a trace file by call c.
MapFromTrace(trace, c) == [exists |-> TRUE, from |-> trace.from, writer |-> c]

\* Ok(_): export_coverage, then Ok(Some(())).  from_trace_file panics when the
\* trace cannot be opened and output_map_to_file(..).unwrap() when the map
\* cannot be written.
ExportCoverage ==
    /\ proc = "running"
    /\ pc = "post"
    /\ vmResult.ok
    /\ IF ~runner.coverage
       THEN /\ execResult' = [state |-> "Ok", error |-> NoError]
            /\ pc' = "ret"
            /\ UNCHANGED <<proc, abortedAt, hookEvents, mapFile>>
       ELSE \E readable \in BOOLEAN, writable \in BOOLEAN :
              IF traceFile.exists /\ readable /\ writable
              THEN /\ mapFile' = MapFromTrace(traceFile, calls)
                   /\ execResult' = [state |-> "Ok", error |-> NoError]
                   /\ pc' = "ret"
                   /\ UNCHANGED <<proc, abortedAt, hookEvents>>
              ELSE /\ Panic("export_coverage")
                   /\ UNCHANGED <<execResult, mapFile>>
    /\ store' = IF pc' = "ret" THEN NoStore ELSE store
    /\ UNCHANGED <<setup, calls, data, locked, args,
                   synth, vmResult, ret, printed, traceFile, envTrace, debugFile,
                   dumpOf>>

\* Err(err): trace_cleanup, then the error classified by its major status.
CleanupAndClassify ==
    /\ proc = "running"
    /\ pc = "post"
    /\ ~vmResult.ok
    /\ \E removed \in BOOLEAN :
          IF runner.coverage /\ traceFile.exists /\ ~removed
          THEN /\ Panic("trace_cleanup")
               /\ UNCHANGED <<execResult, traceFile>>
          ELSE /\ traceFile' = IF runner.coverage /\ traceFile.exists
                               THEN TraceRemoved ELSE traceFile
               /\ execResult' = [state |-> "Err",
                                 error |-> Classify(vmResult.status, vmResult.message)]
               /\ pc' = "ret"
               /\ UNCHANGED <<proc, abortedAt, hookEvents>>
    /\ store' = IF pc' = "ret" THEN NoStore ELSE store
    /\ UNCHANGED <<setup, calls, data, locked, args,
                   synth, vmResult, ret, printed, mapFile, envTrace, debugFile,
                   dumpOf>>

\* test_input that reports a classified error to the engine as Corpus::Reject
\* instead of aborting.
TestInputReturnRejects ==
    /\ proc = "running"
    /\ pc = "ret"
    /\ ret' = IF execResult.state = "Err" THEN <<-1>> ELSE <<0>>
    /\ printed' = IF execResult.state = "Err" THEN execResult.error ELSE printed
    /\ locked' = FALSE
    /\ pc' = "idle"
    /\ UNCHANGED <<setup, store, proc, abortedAt, hookEvents, calls, data,
                   args, synth, vmResult, execResult, traceFile, mapFile, envTrace,
                   debugFile, dumpOf>>

\* Back in test_input: Err(e) prints e.1 and aborts; otherwise the guard is
\* dropped and 0 is returned.
TestInputReturn ==
    /\ proc = "running"
    /\ pc = "ret"
    /\ IF execResult.state = "Err"
       THEN /\ printed' = execResult.error
            /\ proc' = "aborted"
            /\ abortedAt' = "classified_error"
            /\ pc' = "aborted"
            /\ UNCHANGED <<ret, locked, hookEvents>>
       ELSE /\ ret' = <<0>>
            /\ locked' = FALSE
            /\ pc' = "idle"
            /\ UNCHANGED <<printed, proc, abortedAt, hookEvents>>
    /\ UNCHANGED <<setup, store, calls, data, args, synth,
                   vmResult, execResult, traceFile, mapFile, envTrace, debugFile,
                   dumpOf>>

Next ==
    \/ Initialize
    \/ TestInputDebugDump
    \/ TestInputLock
    \/ CoverageSetup
    \/ Synthesise
    \/ VMCall
    \/ ExportCoverage
    \/ CleanupAndClassify
    \/ TestInputReturn

Spec == Init /\ [][Next]_vars

(***************************************************************************)
(* LLVMFuzzerTestOneInput entered from several threads, on a Runner stored *)
(* with coverage and without a debug-dump path: each thread runs the body  *)
(* of test_input, and a thread that gets Err from execute aborts the       *)
(* process.                                                                *)
(***************************************************************************)
NoAbort == \A t \in Threads : tpc[t] # "aborted"

\* test_input is entered and reaches MOVE_RUNNER.get().unwrap().lock().
ThreadEnter(t) ==
    /\ NoAbort
    /\ tpc[t] = "idle"
    /\ entered[t] < MaxCalls
    /\ entered' = [entered EXCEPT ![t] = @ + 1]
    /\ tpc' = [tpc EXCEPT ![t] = "lock"]
    /\ UNCHANGED <<worker, build, cmin, holder, traceRecords, envOwner>>

\* A lock() that returns a guard whether or not the lock is held.
ThreadLockWithoutWaiting(t) ==
    /\ NoAbort
    /\ tpc[t] = "lock"
    /\ holder' = t
    /\ tpc' = [tpc EXCEPT ![t] = "execute"]
    /\ UNCHANGED <<worker, build, cmin, entered, traceRecords, envOwner>>

\* Mutex::lock: blocks until the lock is free, then the guard `runner` is
\* held by the thread.
ThreadLock(t) ==
    /\ NoAbort
    /\ tpc[t] = "lock"
    /\ holder = NoHolder
    /\ holder' = t
    /\ tpc' = [tpc EXCEPT ![t] = "execute"]
    /\ UNCHANGED <<worker, build, cmin, entered, traceRecords, envOwner>>

\* execute up to coverage_setup: the stale trace is removed and
\* MOVE_VM_TRACE is set.
ThreadCoverageSetup(t) ==
    /\ NoAbort
    /\ tpc[t] = "execute"
    /\ traceRecords' = {}
    /\ envOwner' = t
    /\ tpc' = [tpc EXCEPT ![t] = "synth"]
    /\ UNCHANGED <<worker, build, cmin, holder, entered>>

\* arbitrary_inputs.
ThreadSynthesise(t) ==
    /\ NoAbort
    /\ tpc[t] = "synth"
    /\ tpc' = [tpc EXCEPT ![t] = "vm"]
    /\ UNCHANGED <<worker, build, cmin, holder, entered, traceRecords, envOwner>>

\* execute_function_bypass_visibility: the VM appends its records to the
\* trace and returns Ok or Err.
ThreadVMCall(t) ==
    /\ NoAbort
    /\ tpc[t] = "vm"
    /\ traceRecords' = traceRecords \cup {t}
    /\ \E ok \in BOOLEAN : tpc' = [tpc EXCEPT ![t] = IF ok THEN "export" ELSE "cleanup"]
    /\ UNCHANGED <<worker, build, cmin, holder, entered, envOwner>>

\* Ok(_): export_coverage reads the trace; execute returns.
ThreadExport(t) ==
    /\ NoAbort
    /\ tpc[t] = "export"
    /\ tpc' = [tpc EXCEPT ![t] = "ret"]
    /\ UNCHANGED <<worker, build, cmin, holder, entered, traceRecords, envOwner>>

\* Err(err): trace_cleanup; execute returns Err and test_input aborts the
\* process.
ThreadCleanup(t) ==
    /\ NoAbort
    /\ tpc[t] = "cleanup"
    /\ traceRecords' = {}
    /\ tpc' = [tpc EXCEPT ![t] = "aborted"]
    /\ UNCHANGED <<worker, build, cmin, holder, entered, envOwner>>

\* The closure returns 0 and the guard is dropped.
ThreadReturn(t) ==
    /\ NoAbort
    /\ tpc[t] = "ret"
    /\ holder' = NoHolder
    /\ tpc' = [tpc EXCEPT ![t] = "idle"]
    /\ UNCHANGED <<worker, build, cmin, entered, traceRecords, envOwner>>

InitThreads ==
    /\ WorkerAside
    /\ ThreadsIdle
    /\ BuildAside
    /\ CminAside

NextThreads ==
    \E t \in Threads :
       \/ ThreadEnter(t)
       \/ ThreadLock(t)
       \/ ThreadCoverageSetup(t)
       \/ ThreadSynthesise(t)
       \/ ThreadVMCall(t)
       \/ ThreadExport(t)
       \/ ThreadCleanup(t)
       \/ ThreadReturn(t)

SpecThreads == InitThreads /\ [][NextThreads]_vars

(***************************************************************************)
(* The round trip of test::display_build_options on one case.              *)
(***************************************************************************)
\* let case_str = format_build_options(case).
FormatCase ==
    /\ bpc = "case"
    /\ bwords' = format_build_options(bopts)
    /\ bpc' = "formatted"
    /\ UNCHANGED <<worker, threads, cmin, bopts, bparsed>>

\* BuildOptions::parse_from(case_str.split_whitespace()).
ParseCase ==
    /\ bpc = "formatted"
    /\ bparsed' = parse_from(bwords)
    /\ bpc' = "parsed"
    /\ UNCHANGED <<worker, threads, cmin, bopts, bwords>>

InitBuild ==
    /\ WorkerAside
    /\ ThreadsIdle
    /\ bopts \in BuildOptionsCases
    /\ bwords = <<>>
    /\ bparsed = NotParsed
    /\ bpc = "case"
    /\ CminAside

NextBuild ==
    \/ FormatCase
    \/ ParseCase

SpecBuild == InitBuild /\ [][NextBuild]_vars

(***************************************************************************)
(* exec_cmin, step by step.  An Err ends it with `?`; the TempDir is       *)
(* deleted with all it holds when exec_cmin returns.                       *)
(***************************************************************************)
CminReturns(how) ==
    /\ cpc' = how
    /\ tmpCorpus' = NoDir
    /\ oldCorpus' = NoDir

\* exec_build, cargo_run, the user's arguments and corpus_for.
CminCommand ==
    /\ cpc = "start"
    /\ \E built \in BOOLEAN :
          IF built
          THEN /\ cmdArgs' = cargo_run \o userArgs
               /\ cpc' = "command"
               /\ UNCHANGED <<tmpCorpus, oldCorpus>>
          ELSE /\ CminReturns("error")
               /\ UNCHANGED cmdArgs
    /\ UNCHANGED <<worker, threads, build, corpusDir, corpusBefore, userArgs, exitStatus>>

\* TempDir::new_in and fs::create_dir(&tmp_corpus).
CminTempDir ==
    /\ cpc = "command"
    /\ \E created \in BOOLEAN :
          IF created
          THEN /\ tmpCorpus' = Dir({})
               /\ cpc' = "tmp"
               /\ UNCHANGED oldCorpus
          ELSE CminReturns("error")
    /\ UNCHANGED <<worker, threads, build, corpusDir, corpusBefore, userArgs, cmdArgs,
                   exitStatus>>

\* cmd.status(): the command could not be started, or it ran and ended with
\* a status; a failure is printed and exec_cmin returns Ok(()).
CminRun ==
    /\ cpc = "tmp"
    /\ \E how \in {"not_started", "success", "failure"}, written \in SUBSET CorpusInputs :
          IF how = "not_started"
          THEN /\ written = {}
               /\ CminReturns("error")
               /\ UNCHANGED <<exitStatus, corpusDir>>
          ELSE /\ exitStatus' = how
               /\ corpusDir' = AfterCommand(CorpusPath, corpusDir, cmdArgs, written)
               /\ LET tmp == AfterCommand(TmpCorpusPath, tmpCorpus, cmdArgs, written)
                  IN  IF how = "success"
                      THEN /\ tmpCorpus' = tmp
                           /\ cpc' = "ran"
                           /\ UNCHANGED oldCorpus
                      ELSE CminReturns("done")
               /\ written # {} =>
                     (corpusDir' # corpusDir \/ AfterCommand(TmpCorpusPath, tmpCorpus,
                                                              cmdArgs, written) # tmpCorpus)
    /\ UNCHANGED <<worker, threads, build, corpusBefore, userArgs, cmdArgs, oldCorpus>>

\* fs::rename(&corpus, tmp.path().join("old")).
CminRenameOld ==
    /\ cpc = "ran"
    /\ \E renamed \in BOOLEAN :
          IF renamed
          THEN /\ oldCorpus' = corpusDir
               /\ corpusDir' = NoDir
               /\ cpc' = "moved"
               /\ UNCHANGED tmpCorpus
          ELSE /\ CminReturns("error")
               /\ UNCHANGED corpusDir
    /\ UNCHANGED <<worker, threads, build, corpusBefore, userArgs, cmdArgs, exitStatus>>

\* fs::rename(tmp.path().join("corpus"), corpus), then Ok(()).
CminRenameNew ==
    /\ cpc = "moved"
    /\ \E renamed \in BOOLEAN :
          IF renamed
          THEN /\ corpusDir' = tmpCorpus
               /\ CminReturns("done")
          ELSE /\ CminReturns("error")
               /\ UNCHANGED corpusDir
    /\ UNCHANGED <<worker, threads, build, corpusBefore, userArgs, cmdArgs, exitStatus>>

InitCmin ==
    /\ WorkerAside
    /\ ThreadsIdle
    /\ BuildAside
    /\ \E files \in SUBSET CorpusInputs :
          /\ corpusDir = Dir(files)
          /\ corpusBefore = Dir(files)
    /\ tmpCorpus = NoDir
    /\ oldCorpus = NoDir
    /\ userArgs \in UserArgChoices
    /\ cmdArgs = <<>>
    /\ exitStatus = "none"
    /\ cpc = "start"

NextCmin ==
    \/ CminCommand
    \/ CminTempDir
    \/ CminRun
    \/ CminRenameOld
    \/ CminRenameNew

SpecCmin == InitCmin /\ [][NextCmin]_vars

(***************************************************************************)
(* Properties.                                                             *)
(***************************************************************************)
RECURSIVE HasShape(_, _)
HasShape(v, t) ==
    /\ v.tag = t.tag
    /\ CASE t.tag = "Vector" ->
                \A i \in 1..Len(v.sub) : HasShape(v.sub[i], t.sub[1])
         [] t.tag = "Struct" ->
                /\ Len(v.sub) = Len(t.sub)
                /\ \A i \in 1..Len(t.sub) : HasShape(v.sub[i], t.sub[i])
         [] t.tag \in {"Address", "Signer"} -> Len(v.v) = AccountAddressLength
         [] OTHER -> Len(v.v) = 1

ZeroAddress(tag) == MoveValue(tag, Zeros(AccountAddressLength), <<>>)

\* The process was ended by a call of LLVMFuzzerInitialize, not by a
\* per-input call.
EndedByInitialize == abortedAt \in {"initialize", "cli_parse"}

\* C1: the argument vector handed to the VM call has exactly one value per
\* target parameter, the i-th value having the shape of the i-th schema; no
\* parameter is dropped.
C1_OneValuePerParameter ==
    pc = "vm" =>
        /\ Len(args) = Len(runner.params)
        /\ \A i \in 1..Len(args) : HasShape(args[i], runner.params[i])

\* C2: when the address parser rejects the bytes read for a top-level Address
\* or Signer parameter, the error is reported and the all-zero address is
\* emitted in that parameter's position, so every later argument keeps its
\* position.
C2_ZeroAddressPlaceholder ==
    (pc = "vm" /\ synth.failed # {}) =>
        /\ synth.errs >= 1
        /\ Len(args) = Len(runner.params)
        /\ \A i \in synth.failed : args[i] = ZeroAddress(runner.params[i].tag)

\* C3: an AccountAddressParseError raised during synthesis (top-level
\* parameter, struct field or vector element) never panics or aborts the
\* worker: the process is never brought down by synthesis.
C3_ParseErrorNeverAborts ==
    ~(proc = "aborted" /\ abortedAt = "synthesis")

\* C4: without the debug-dump path, a per-input call returns 0 exactly when
\* execute succeeded; when execute returned a classified error the error is
\* printed and the process aborts without returning; no non-zero code is
\* ever returned.
C4_ReturnZeroOrAbort ==
    (debugPath = "none" /\ ~EndedByInitialize) =>
        /\ ret \in {<<>>, <<0>>}
        /\ ret = <<0>> => (execResult.state = "Ok" /\ proc = "running" /\ pc = "idle")
        /\ (pc = "idle" /\ calls > 0) => (ret = <<0>> /\ execResult.state = "Ok")
        /\ execResult.state = "Err" =>
              \/ pc = "ret"
              \/ /\ proc = "aborted"
                 /\ abortedAt = "classified_error"
                 /\ printed = execResult.error
                 /\ ret = <<>>

\* C4 witness: a call returned 0 and the next one aborted on a classified error.
C4_Witness ==
    /\ debugPath = "none"
    /\ calls = 2
    /\ proc = "aborted"
    /\ abortedAt = "classified_error"
    /\ printed = execResult.error

\* The ErrorKind the table of the specification gives for a major status.
TableKind(status) ==
    CASE status = ABORTED -> "Abort"
      [] status = ARITHMETIC_ERROR -> "ArithmeticError"
      [] status = MEMORY_LIMIT_EXCEEDED -> "MemoryLimitExceeded"
      [] status = OUT_OF_GAS -> "OutOfGas"
      [] status = MISSING_DEPENDENCY -> "MissingDependency"
      [] OTHER -> "Unknown"

\* C5: a failed VM call is classified by its major status as the table
\* states, and the kind produced is a member of the error taxonomy (the
\* variants enum Error declares).
C5_ClassificationTable ==
    (pc = "ret" /\ execResult.state = "Err") =>
        /\ execResult.error.kind = TableKind(vmResult.status)
        /\ execResult.error.kind \in ErrorKinds

\* C6 as stated: the Unknown error has the numeric status code as a datum of
\* its own, next to the message.
C6_UnknownHasNumericStatusField ==
    (pc = "ret" /\ execResult.state = "Err" /\ vmResult.status \notin ListedStatuses) =>
        /\ "numeric_status" \in DOMAIN execResult.error
        /\ execResult.error.numeric_status = vmResult.status

\* What execute does instead (C6): for a status outside the five listed ones
\* the error is Unknown with the message as its only datum; the message is
\* "Status code: <code>, <VM message>", so two different unlisted statuses
\* with equal VM messages still give different errors.
C6_UnknownCarriesCodeInMessage ==
    (pc = "ret" /\ execResult.state = "Err" /\ vmResult.status \notin ListedStatuses) =>
        LET e == execResult.error
            m == IF vmResult.message.some THEN vmResult.message.text ELSE ""
        IN  /\ e.kind = "Unknown"
            /\ DOMAIN e = {"kind", "message"}
            /\ e.message = "Status code: " \o ToString(vmResult.status) \o ", " \o m
            /\ \A s \in OtherStatuses \ {vmResult.status} :
                  Classify(s, vmResult.message) # e

\* C6 witness: an unlisted status with a VM message has been classified.
C6_Witness ==
    /\ pc = "ret"
    /\ execResult.state = "Err"
    /\ vmResult.status \in OtherStatuses
    /\ vmResult.message.some
    /\ execResult.error.kind = "Unknown"

\* execute has finished: it returned (to test_input, which may since have
\* returned or aborted on the classified error).
ExecuteFinished ==
    \/ pc = "ret"
    \/ pc = "idle" /\ calls > 0
    \/ proc = "aborted" /\ abortedAt = "classified_error"

\* C7: under coverage no .trace file exists once execute has finished,
\* whatever the outcome of the invocation.
C7_NoTraceAfterExecute ==
    (runner.coverage /\ debugPath = "none" /\ ExecuteFinished) => ~traceFile.exists

\* C8: under coverage, when execute returns Ok the coverage map is the one
\* this invocation wrote, computed from the trace records of this invocation
\* only; when it returns an error this invocation wrote no map.
C8_MapFromOwnTrace ==
    (runner.coverage /\ pc = "ret") =>
        /\ execResult.state = "Ok" =>
              /\ mapFile.exists
              /\ mapFile.writer = calls
              /\ mapFile.from = {calls}
        /\ execResult.state = "Err" => mapFile.writer # calls

\* C8 witness: a second successful invocation exported its map after the
\* first one had exported its own.
C8_Witness ==
    /\ runner.coverage
    /\ pc = "ret"
    /\ execResult.state = "Ok"
    /\ calls = 2
    /\ mapFile.from = {2}

\* C9 as stated: with the debug-dump path set every call returns 0, without
\* locking the Runner, running execute or the VM, or touching the coverage
\* files.
C9_DebugDumpAlwaysReturnsZero ==
    (debugPath = "set" /\ calls > 0 /\ ~EndedByInitialize) =>
        /\ ret = <<0>>
        /\ ~locked
        /\ pc = "idle"
        /\ execResult.state = "none"
        /\ traceFile = NoTrace /\ mapFile = NoMap /\ envTrace = "unset"

\* C9 (amended): with the debug-dump path set a call returns 0 unless
\* creating or writing the dump file fails, in which case it panics and the
\* process aborts; in both cases the Runner is never locked, execute and the
\* VM never run, and no file under the coverage-map directory is created,
\* deleted or written: only the file at the debug-dump path is.
C9_DebugDumpFrame ==
    (debugPath = "set" /\ ~EndedByInitialize) =>
        /\ (calls > 0 /\ proc = "running") => (ret = <<0>> /\ debugFile.exists)
        /\ proc = "aborted" => (abortedAt = "debug_dump" /\ ret = <<>>)
        /\ ~locked
        /\ pc \in {"idle", "aborted"}
        /\ execResult.state = "none"
        /\ args = <<>> /\ vmResult = VmOk
        /\ traceFile = NoTrace /\ mapFile = NoMap /\ envTrace = "unset"

\* C9 witness: two calls dumped their input and returned 0.
C9_Witness ==
    /\ debugPath = "set"
    /\ calls = 2
    /\ ret = <<0>>
    /\ debugFile.exists
    /\ dumpOf # NoDump

\* C10: the dump text uniquely encodes the input bytes: of two successive
\* dumps, different byte contents give different text and equal byte
\* contents give equal text, wherever the buffers live.
C10_DumpEncodesBytes ==
    [][(dumpOf # NoDump /\ dumpOf' # NoDump /\ calls' = calls + 1 /\ ret' = <<0>>) =>
          /\ dumpOf'.bytes # dumpOf.bytes => debugFile'.text # debugFile.text
          /\ dumpOf'.bytes = dumpOf.bytes => debugFile'.text = debugFile.text]_vars

\* The panics a per-input call can raise, by where they are raised.
PerInputPanics ==
    {"debug_dump", "coverage_setup", "synthesis", "vm", "export_coverage",
     "trace_cleanup"}

\* C11: after Initialise, a panic raised inside a per-input call first runs
\* the hook that was installed before Initialise and then aborts the process:
\* nothing unwinds, the call returns no value for that input and the process
\* stays aborted.
C11_PanicRunsHookThenAborts ==
    (proc = "aborted" /\ abortedAt \in PerInputPanics) =>
        /\ initialized
        /\ hookEvents = <<"default_hook", "abort">>
        /\ ret = <<>>
        /\ pc = "aborted"

\* C11 witness: the VM panicked in the second call.
C11_Witness ==
    /\ proc = "aborted"
    /\ abortedAt = "vm"
    /\ calls = 2
    /\ hookEvents = <<"default_hook", "abort">>

\* C12: the Runner singleton is written exactly once, by the Initialise that
\* sets it; no later step (a per-input call or a further attempt to set the
\* singleton) changes any of its fields, and once set it stays set.
C12_RunnerWrittenOnce ==
    [][/\ runner' # runner => (~initialized /\ initialized' /\ calls = 0)
       /\ initialized => (initialized' /\ runner' = runner)
       /\ ~initialized' => runner' = NoRunner]_vars

\* C12 witness: after a per-input call, a second attempt to set the
\* singleton failed and the first Runner is still in place.
C12_Witness ==
    /\ initialized
    /\ calls > 0
    /\ proc = "aborted"
    /\ diagnostic = RunnerSetTwice
    /\ runner # NoRunner

\* Number of vector elements in a value, at every depth.
RECURSIVE ElementCount(_)
RECURSIVE ElementCountAll(_)
ElementCountAll(vs) ==
    IF vs = <<>> THEN 0 ELSE ElementCount(Head(vs)) + ElementCountAll(Tail(vs))
ElementCount(v) ==
    CASE v.tag = "Vector" -> Len(v.sub) + ElementCountAll(v.sub)
      [] v.tag = "Struct" -> ElementCountAll(v.sub)
      [] OTHER -> 0

\* The bytes of a slice that read as a true continue bit.
ContinueBytes(bytes) == {i \in 1..Len(bytes) : bytes[i] % 2 = 1}

\* C13: vector synthesis terminates for every schema and every byte slice
\* (synthesis has an outcome wherever it is about to run); every element costs one
\* continue bit read from the slice and the reader yields false once the
\* bytes are exhausted, so the vectors of a call have, together, no more
\* elements than the slice has bytes.
C13_VectorsBoundedByInput ==
    /\ pc = "synth" =>
          arbitrary_inputs(runner.params, data, addrRejects).panicked \in BOOLEAN
    /\ pc = "vm" =>
          /\ ElementCountAll(args) <= Cardinality(ContinueBytes(data))
          /\ ElementCountAll(args) <= Len(data)
          /\ data = <<>> => ElementCountAll(args) = 0

\* C13 witness: a vector of vectors and a vector of empty structs were
\* synthesised with as many elements as the slice has bytes.
C13_Witness ==
    /\ pc = "vm"
    /\ runner.params \in {<<Vector(Vector(Prim("Bool")))>>, <<Vector(Struct(<<>>))>>}
    /\ Len(data) = 2
    /\ ElementCountAll(args) = 2

FirstIsBool == Len(runner.params) >= 1 /\ runner.params[1].tag = "Bool"

\* The byte at position i of a slice, zero past its end.
ByteAt(bytes, i) == IF i <= Len(bytes) THEN bytes[i] ELSE 0

\* The little-endian number in the w bytes after offset off.
RECURSIVE LittleEndianAt(_, _, _)
LittleEndianAt(bytes, off, w) ==
    IF w = 0 THEN 0
    ELSE ByteAt(bytes, off + 1) + 256 * LittleEndianAt(bytes, off + 1, w - 1)

\* C14 as stated: a Bool parameter is true if and only if the byte it
\* consumes is non-zero.
C14_BoolTrueIffNonZero ==
    (pc = "vm" /\ FirstIsBool /\ data # <<>>) =>
        (args[1].v = <<1>> <=> data[1] # 0)

\* C14 (amended): a Bool parameter consumes exactly one byte and is true if
\* and only if the lowest bit of that byte is 1; it is false on an exhausted
\* stream.  The parameter after it reads from the second byte on.
C14_BoolIsLowBit ==
    (pc = "vm" /\ FirstIsBool) =>
        /\ args[1] = MoveValue("Bool", <<ByteAt(data, 1) % 2>>, <<>>)
        /\ (Len(runner.params) >= 2 /\ runner.params[2].tag = "U16") =>
              args[2].v = <<LittleEndianAt(data, 1, 2)>>

\* C14 witness: a Bool was read from a non-zero even byte, and is false.
C14_Witness ==
    /\ pc = "vm"
    /\ FirstIsBool
    /\ data # <<>>
    /\ data[1] = 2
    /\ args[1].v = <<0>>

IntTags == {"U8", "U16", "U32", "U64", "U128", "U256"}

\* The widths the specification gives.
BytesOf(tag) ==
    CASE tag = "U8" -> 1 [] tag = "U16" -> 2 [] tag = "U32" -> 4
      [] tag = "U64" -> 8 [] tag = "U128" -> 16 [] tag = "U256" -> 32
      [] tag = "Bool" -> 1 [] tag \in {"Address", "Signer"} -> 32

\* Where the k-th of the leading fixed-width parameters starts.
RECURSIVE OffsetOf(_, _)
OffsetOf(params, k) ==
    IF k = 1 THEN 0 ELSE OffsetOf(params, k - 1) + BytesOf(params[k - 1].tag)

RECURSIVE ZeroValue(_)
ZeroValue(t) ==
    CASE t.tag = "Vector" -> MoveValue("Vector", <<>>, <<>>)
      [] t.tag = "Struct" ->
            MoveValue("Struct", <<>>, [i \in 1..Len(t.sub) |-> ZeroValue(t.sub[i])])
      [] t.tag \in {"Address", "Signer"} -> ZeroAddress(t.tag)
      [] OTHER -> MoveValue(t.tag, <<0>>, <<>>)

\* The parameter k starts at or past the end of the slice: every parameter
\* before it has a fixed width and they cover the slice.
StartsExhausted(k) ==
    /\ \A i \in 1..(k - 1) :
          runner.params[i].tag \in IntTags \cup {"Bool", "Address", "Signer"}
    /\ OffsetOf(runner.params, k) >= Len(data)

\* C16: when the stream runs out, synthesis does not fail: the result has
\* one value per schema, and every parameter read from the exhausted stream
\* is the zero value of its schema (0, false, the zero address, the empty
\* vector); the empty input gives the full list of zero values.
C16_ExhaustedStreamGivesZeros ==
    pc = "vm" =>
        /\ Len(args) = Len(runner.params)
        /\ \A k \in 1..Len(runner.params) :
              StartsExhausted(k) => args[k] = ZeroValue(runner.params[k])

\* What holds of C16 when the address parser accepts every buffer.
C16_ZeroFillWhenParserAccepts ==
    (pc = "vm" /\ addrRejects = {}) =>
        /\ Len(args) = Len(runner.params)
        /\ \A k \in 1..Len(runner.params) :
              StartsExhausted(k) => args[k] = ZeroValue(runner.params[k])

\* Bytes of slice b that synthesis for the Runner's schemas takes.
Consumed(b) == Len(b) - Len(arbitrary_inputs(runner.params, b, addrRejects).rest)

Max(a, b) == IF a > b THEN a ELSE b

\* C17: synthesis is prefix-deterministic: a slice that agrees with the
\* input of the call on a prefix covering every read made for the schemas
\* (the reads of both runs stay within the prefix) gives the same values and
\* the same reports; the bytes after the prefix and the length of the slice
\* influence nothing.  Slices that agree on some such prefix agree on the
\* shortest one, of length k.
C17_PrefixDeterminism ==
    pc = "vm" =>
        LET c1 == Consumed(data)
        IN  \A b2 \in Inputs :
              (c1 <= Len(b2) /\ SubSeq(data, 1, c1) = SubSeq(b2, 1, c1)) =>
                LET r2 == arbitrary_inputs(runner.params, b2, addrRejects)
                    k == Max(c1, Len(b2) - Len(r2.rest))
                IN  ( /\ k <= Min(Len(data), Len(b2))
                      /\ SubSeq(data, 1, k) = SubSeq(b2, 1, k) ) =>
                        /\ ~r2.panicked
                        /\ r2.vals = args
                        /\ r2.failed = synth.failed
                        /\ r2.errs = synth.errs

\* C17 witness: a call read only the first byte of a two-byte slice, so a
\* slice of another length and other later bytes is compared with it.
C17_Witness ==
    /\ pc = "vm"
    /\ runner.params = <<Prim("U8")>>
    /\ data = <<1, 2>>
    /\ args = <<MoveValue("U8", <<1>>, <<>>)>>

\* C18: a failure to export coverage (trace missing or unreadable, map not
\* writable) or to delete the trace file is not fatal: it never brings the
\* process down, execute still returns its result.
C18_CoverageFailuresNotFatal ==
    ~(/\ proc = "aborted"
      /\ runner.coverage_map_dir = "some"
      /\ abortedAt \in {"export_coverage", "trace_cleanup", "coverage_setup"})

\* C18 witness: the VM call succeeded and exporting the coverage failed.
C18_Witness ==
    /\ proc = "aborted"
    /\ abortedAt = "export_coverage"
    /\ vmResult.ok
    /\ execResult.state = "none"

\* Every schema is one of the supported shapes, at every depth.
RECURSIVE Supported(_)
Supported(t) ==
    /\ t.tag \in FuzzerTypeTags
    /\ t.tag = "Vector" => Len(t.sub) = 1
    /\ t.tag \in {"Vector", "Struct"} => \A i \in 1..Len(t.sub) : Supported(t.sub[i])
    /\ t.tag \notin {"Vector", "Struct"} => t.sub = <<>>

\* The kinds of parameter type the target declares that have no schema.
RECURSIVE UnsupportedKinds(_)
UnsupportedKinds(ts) ==
    UNION { CASE ts[i].kind = "Primitive" ->
                    IF ts[i].prim \in FuzzerTypeTags THEN {} ELSE {ts[i].prim}
              [] ts[i].kind \in {"Vector", "Struct"} -> UnsupportedKinds(ts[i].sub)
              [] OTHER -> {ts[i].kind} : i \in 1..Len(ts) }

\* C19: a target with a parameter of an unsupported kind ends the process
\* during Initialise, before any input, with a non-zero status and a
\* diagnostic that mentions the offending type; and when Initialise completes
\* every schema of the Runner is a supported shape at every depth.
C19_UnsupportedTypeDiagnosed ==
    /\ (UnsupportedKinds(target) # {} /\ proc # "running" /\ abortedAt = "initialize") =>
          /\ calls = 0
          /\ ~initialized
          /\ diagnostic.mentions \cap UnsupportedKinds(target) # {}
    /\ initialized =>
          /\ UnsupportedKinds(target) = {}
          /\ \A i \in 1..Len(runner.params) : Supported(runner.params[i])

\* What holds of C19: an unsupported parameter kind aborts the process in
\* Initialise before any input, with the message of todo!(), and a Runner
\* that was set has supported schemas only.
C19_UnsupportedTypeAborts ==
    /\ (UnsupportedKinds(target) # {} /\ proc # "running") =>
          /\ proc = "aborted" => (abortedAt = "initialize" /\ diagnostic = NotYetImplemented)
          /\ calls = 0
          /\ ~initialized
    /\ initialized =>
          /\ UnsupportedKinds(target) = {}
          /\ \A i \in 1..Len(runner.params) : Supported(runner.params[i])

\* C19 witness: Initialise was aborted by a reference parameter.
C19_Witness ==
    /\ target = <<MoveOther("Reference")>>
    /\ proc = "aborted"
    /\ abortedAt = "initialize"
    /\ diagnostic = NotYetImplemented

\* C20: the command line is accepted only with --coverage and
\* --coverage-map-dir both given or both absent, so no per-input call runs
\* with coverage enabled and no coverage-map directory.
C20_CoverageImpliesMapDir ==
    /\ initialized => (runner.coverage <=> runner.coverage_map_dir = "some")
    /\ (calls > 0 /\ runner.coverage) => runner.coverage_map_dir = "some"

\* C20 witness: a per-input call ran with coverage enabled and no directory,
\* and panicked in get_coverage_map_dir.
C20_Witness ==
    /\ initialized
    /\ runner.coverage
    /\ runner.coverage_map_dir = "none"
    /\ proc = "aborted"
    /\ abortedAt = "coverage_setup"

\* C21: when coverage is enabled with a coverage-map directory, the directory
\* exists once Initialise has completed, hence before the first per-input
\* call sets up the trace file, also when it did not exist at start.
C21_MapDirExistsAfterInitialise ==
    (initialized /\ runner.coverage /\ runner.coverage_map_dir = "some") => mapDirExists

\* C21 witness: with the directory missing, the VM call succeeded and the
\* export found no trace file.
C21_Witness ==
    /\ runner.coverage
    /\ runner.coverage_map_dir = "some"
    /\ ~mapDirExists
    /\ proc = "aborted"
    /\ abortedAt = "export_coverage"

\* The trace file was deleted, a record was appended to it, in this step.
TraceDeleted == traceFile.exists /\ ~traceFile'.exists
TraceWritten == traceFile'.exists /\ traceFile'.from # traceFile.from

\* C23: within one coverage-enabled invocation the steps come strictly in
\* the order trace setup (stale trace deleted, MOVE_VM_TRACE published),
\* synthesis, VM call, then exactly one of coverage export (after Ok) and
\* trace cleanup (after Err): the path is published before the VM starts,
\* the VM writes the trace only during the VM call, and export or cleanup
\* never runs before the VM call has returned.
C23_StepsInOrder ==
    [][runner.coverage =>
          /\ pc' = "synth" => (pc = "execute" /\ envTrace' = "trace_path" /\ ~traceFile'.exists)
          /\ pc' = "vm" => (pc = "synth" /\ envTrace' = "trace_path")
          /\ pc' = "post" => (pc = "vm" /\ envTrace = "trace_path")
          /\ pc' = "ret" => pc = "post"
          /\ envTrace' # envTrace => pc = "execute"
          /\ args' # args => pc \in {"synth", "vm"}
          /\ TraceWritten => pc = "vm"
          /\ TraceDeleted => (pc = "execute" \/ (pc = "post" /\ ~vmResult.ok))
          /\ mapFile' # mapFile => (pc = "post" /\ vmResult.ok /\ ~TraceDeleted)
          /\ (pc = "post" /\ pc' = "ret") =>
                IF vmResult.ok THEN mapFile'.writer = calls /\ traceFile' = traceFile
                ELSE mapFile' = mapFile /\ ~traceFile'.exists]_vars

\* C23 witness: the second coverage-enabled invocation went through setup,
\* synthesis and a VM call that wrote its trace, and exported its map.
C23_Witness ==
    /\ runner.coverage
    /\ calls = 2
    /\ pc = "ret"
    /\ execResult.state = "Ok"
    /\ mapFile.writer = 2
    /\ traceFile.from = {2}

\* A sibling file of the directory does not deserialise.
BadSibling == \E i \in 1..Len(disk.siblings) : ~disk.siblings[i].ok

\* C24: the ModuleLoader skips every sibling file that fails to deserialise
\* and keeps loading, so that initialisation succeeds whenever the root file
\* opens and deserialises: no initialisation is ended by a load failure while
\* the root file is good.
C24_BadSiblingSkipped ==
    (disk.root.ok /\ BadSibling) =>
        ~(proc = "aborted" /\ abortedAt = "initialize" /\ diagnostic = LoadFailed)

\* C24, the part about the root: a root file that does not deserialise ends
\* initialisation, and no Runner is stored.
C24_RootFailureFatal == ~disk.root.ok => ~initialized

\* C24 witness: the root deserialised, a sibling did not, and initialize
\* panicked on the load.
C24_Witness ==
    /\ disk.root.ok
    /\ BadSibling
    /\ proc = "aborted"
    /\ abortedAt = "initialize"
    /\ diagnostic = LoadFailed
    /\ hookEvents = <<"default_hook", "abort">>

\* The modules the Runner holds, root first, and an execute that has built
\* its store.
RunnerModules == <<runner.module>> \o runner.dependencies
StoreBuilt == pc \in {"synth", "vm", "post"}

\* C25: in the ModuleStore built from the root and the dependency list,
\* get_module(id) returns bytes exactly when id is the self-id of the root or
\* of a dependency, the bytes are the serialisation of a module inserted
\* under that id, every other id is absent, and the store stays as built
\* while the VM looks modules up.
C25_StoreHoldsExactlyLoadedModules ==
    /\ [](StoreBuilt =>
            \A id \in ModuleIds :
               LET r == get_module(store, id)
                   inserted == {i \in 1..Len(RunnerModules) : SelfId(RunnerModules[i]) = id}
               IN  /\ r.some <=> inserted # {}
                   /\ r.some => \E i \in inserted : r.bytes = Serialize(RunnerModules[i])
                   /\ ~r.some => r.bytes = <<>>)
    /\ [][StoreBuilt /\ StoreBuilt' => UNCHANGED store]_vars

\* C25 witness: a VM call is about to run on a store holding the root and a
\* dependency, with ids that are in neither.
C25_Witness ==
    /\ pc = "vm"
    /\ Len(runner.dependencies) = 1
    /\ Cardinality(store) = 2
    /\ get_module(store, SelfId(Helper)).some
    /\ ~get_module(store, [address |-> "0x2", name |-> "helper"]).some

\* Every element of a list, twice in a row.
RECURSIVE Doubled(_)
Doubled(ms) == IF ms = <<>> THEN <<>> ELSE <<Head(ms), Head(ms)>> \o Doubled(Tail(ms))

\* C26: inserting a module whose self-id is present replaces the bytes and
\* leaves one entry for the id, the last insert winning, also when a
\* dependency has the root's self-id; inserting a module twice gives the
\* store that inserting it once gives; and the store does not depend on how
\* many times each module was inserted.
C26_LastInsertWins ==
    StoreBuilt =>
        /\ \A id \in ModuleIds : Cardinality({e \in store : e.id = id}) <= 1
        /\ \A i \in 1..Len(RunnerModules) :
              (\A j \in (i + 1)..Len(RunnerModules) :
                  SelfId(RunnerModules[j]) # SelfId(RunnerModules[i]))
              => get_module(store, SelfId(RunnerModules[i])).bytes
                     = Serialize(RunnerModules[i])
        /\ \A i \in 1..Len(RunnerModules) :
              \A before \in {NoStore, ModuleStoreNew(runner.module), store} :
                 add_module(add_module(before, RunnerModules[i]), RunnerModules[i])
                     = add_module(before, RunnerModules[i])
        /\ remote_view(runner.module, Doubled(runner.dependencies)) = store
        /\ remote_view(runner.module, runner.dependencies \o runner.dependencies) = store

\* C26 witness: a dependency with the root's self-id and another body was
\* inserted after the root, and the store holds the dependency's bytes.
C26_Witness ==
    /\ pc = "vm"
    /\ Len(runner.dependencies) = 1
    /\ SelfId(runner.dependencies[1]) = SelfId(runner.module)
    /\ runner.dependencies[1] # runner.module
    /\ store = {Entry(SelfId(runner.module), Serialize(runner.dependencies[1]))}

\* C28: the module in which execute invokes the target is the module in
\* which ABI recovery located the function: the self-id handed to the VM call
\* is the self-id of the module whose name matched --target-module.
C28_ExecutesWhereAbiFound ==
    initialized => CalledModuleId = SelfId(abiModule)

\* C28 witness: a VM call is about to run in the root module with arguments
\* synthesised from the signature of a function found in another module.
C28_Witness ==
    /\ pc = "vm"
    /\ abiModule.name = runner.target_module
    /\ CalledModuleId # SelfId(abiModule)
    /\ runner.params = transform_params(ParameterTypes(abiModule)).types

\* The positions of a thread inside execute.
InExecute == {"execute", "synth", "vm", "export", "cleanup", "ret"}

\* C27: at most one per-input execution is in progress at any time: a thread
\* that entered LLVMFuzzerTestOneInput while another is inside execute does
\* not begin trace setup, synthesis or the VM call until the other has
\* finished and released the Runner guard, so the trace file and
\* MOVE_VM_TRACE are those of the one invocation in progress.
C27_OneExecutionAtATime ==
    /\ \A t, u \in Threads : (tpc[t] \in InExecute /\ tpc[u] \in InExecute) => t = u
    /\ \A t \in Threads : tpc[t] \in InExecute => holder = t
    /\ \A t \in Threads :
          tpc[t] \in {"vm", "export", "cleanup"} =>
              (envOwner = t /\ traceRecords \subseteq {t})

\* C27 witness: the second thread has entered test_input and waits for the
\* lock while the first is about to read the trace of its VM call.
C27_Witness ==
    /\ tpc[1] = "export"
    /\ tpc[2] = "lock"
    /\ holder = 1
    /\ traceRecords = {1}
    /\ entered[2] = 2

\* What execute returns for input bytes, from the bytes, the Runner's
\* schemas and the target alone.
ArgumentsOf(bytes) == arbitrary_inputs(runner.params, bytes, addrRejects).vals
FailsOn(bytes) ==
    \/ behaviour.fails = "always"
    \/ behaviour.fails = "nonzero" /\ LeadsNonZero(ArgumentsOf(bytes))
OutcomeOf(result) ==
    IF result.ok THEN [state |-> "Ok", error |-> NoError]
    ELSE [state |-> "Err", error |-> Classify(result.status, result.message)]

TestCases ==
    {c \in BuildOptionsCases :
        Cardinality({f \in {"package_path", "target_module", "target_name"} : c[f] # None})
            + Cardinality(c.build_config) + (IF c.verbose THEN 1 ELSE 0) <= 1}

\* C22: formatting a BuildOptions as command-line arguments and parsing the
\* arguments back gives a BuildOptions equal to the one formatted, for every
\* case the test enumerates.
C22_FormatParseRoundTrip ==
    (bpc = "parsed" /\ bopts \in TestCases) => (bparsed.ok /\ bparsed.opts = bopts)

\* C22 witness: the case with a target module and a target function was
\* formatted and the parser refused the arguments.
C22_Witness ==
    /\ bpc = "parsed"
    /\ bopts \in TestCases
    /\ bopts.target_function = "target_function"
    /\ bwords = <<"--module_name", "module_name", "--target_function", "target_function">>
    /\ ~bparsed.ok

\* The worker command was given the path as an argument.
GivenToCommand(path) == \E i \in 1..Len(cmdArgs) : cmdArgs[i] = path

\* C30: exec_cmin never loses corpus inputs without replacing them by a
\* minimised set: when the worker command fails the corpus directory is left
\* as it was, and when it succeeds the temporary directory renamed over the
\* corpus is one the worker command was given as its merge output.
C30_CorpusKeptOrMinimised ==
    /\ exitStatus = "failure" => corpusDir = corpusBefore
    /\ (cpc = "done" /\ exitStatus = "success") => GivenToCommand(TmpCorpusPath)

\* C30, the part about a failing command: the corpus directory is left as
\* exec_cmin found it.
C30_FailureLeavesCorpus == exitStatus = "failure" => corpusDir = corpusBefore

\* C30 witness: the command succeeded without having been given the
\* temporary directory, and the corpus of three inputs is now empty.
C30_Witness ==
    /\ cpc = "done"
    /\ exitStatus = "success"
    /\ ~GivenToCommand(TmpCorpusPath)
    /\ Cardinality(corpusBefore.files) = MaxCorpus
    /\ corpusDir = Dir({})

====
